---- MODULE Spec2Model ----
(***************************************************************************)
(* Resolution-based satisfiability of a clausal knowledge base             *)
(* (satisfiability.py): the term model, the unifier, the resolver and the  *)
(* saturation loop PL_Resolution.                                          *)
(*                                                                         *)
(* Python values are modelled by records with the three fields tag,        *)
(* Predicate and Arguments:                                                *)
(*   a str        tag "str",     Predicate = its characters                *)
(*   a Literal    tag "Literal", Predicate = the characters of the name,   *)
(*                               Arguments = the list of arguments         *)
(*   a list       tag "list",    Arguments = its elements                  *)
(* so that equality of records is Python's ==.  A clause is a tuple of     *)
(* Literals, hence a sequence; the KB is a set of such sequences.          *)
(***************************************************************************)
EXTENDS Integers, Sequences, FiniteSets, Bags, TLC

VARIABLES
    \* ---- PL_Resolution
    KB,          \* the knowledge base: a set of clauses (tuples of Literals)
    processed,   \* the set of ordered clause pairs already collected
    pairs,       \* the candidate pairs collected in the current round
    new,         \* the resolvents of the last completed round
    pc,          \* "collect", "resolve", "done" or "idle"
    verdict,     \* "Running", "Satisfiable" (True), "Unsatisfiable" (False), "Raised"
    input,       \* the clauses PL_Resolution was called with
    collected,   \* history: the bag of all pairs ever appended to pairs
    runNo,       \* 1 for the first run on input, 2 for the second
    first,       \* the verdict of the first run once it has returned, else "none"
    \* ---- unify / substitute / PL_Resolve on one pair of argument lists
    Variables,   \* the global list VARIABLES
    arg_x,       \* first argument of unify
    arg_y,       \* second argument of unify
    theta_out,   \* what unify(arg_x, arg_y, {}) returned or raised
    sub_x,       \* arg_x after substitute(theta_out)
    sub_y,       \* arg_y after substitute(theta_out)
    clause_one,  \* first argument of PL_Resolve
    clause_two,  \* second argument of PL_Resolve
    resolvents,  \* what PL_Resolve(clause_one, clause_two) returned or raised
    fpc          \* "init", "unified", "substituted", "resolved" or "idle"

vars == << KB, processed, pairs, new, pc, verdict, input, collected,
           runNo, first, Variables, arg_x, arg_y, theta_out, sub_x, sub_y,
           clause_one, clause_two, resolvents, fpc >>

engineVars == << KB, processed, pairs, new, pc, verdict, input, collected,
                 runNo, first >>
folVars == << arg_x, arg_y, theta_out, sub_x, sub_y, clause_one, clause_two,
              resolvents, fpc >>

----------------------------------------------------------------------------
(* Bounds of the model *)

MaxArgs == 2          \* longest argument list handed to unify
MaxNest == 3          \* deepest nesting of a variable inside a function term
MaxInputClauses == 3  \* most clauses of an input KB
MaxClauseLen == 4     \* rounds that would create a longer clause are not taken
MaxKB == 6            \* rounds that would make the KB larger are not taken
RecursionLimit == 24  \* frames of unify and unify_var before RecursionError

----------------------------------------------------------------------------
(* Term model: class Literal and the str / list values around it *)

Str(s) == [tag |-> "str", Predicate |-> s, Arguments |-> << >>]

List(a) == [tag |-> "list", Predicate |-> << >>, Arguments |-> a]

Literal(p, a) == [tag |-> "Literal", Predicate |-> p, Arguments |-> a]

\* str(i) for the counter of unify_var
Digits == << "0", "1", "2", "3", "4", "5", "6", "7", "8", "9" >>

\* x in VARIABLES, for the list vs
InVARIABLES(x, vs) == x.tag = "str" /\ \E i \in 1..Len(vs) : vs[i] = x.Predicate

----------------------------------------------------------------------------
(* What unify returns: a dict, None or False; or the exception it raises. *)
(* vars carries the global list VARIABLES through the calls, and depth the *)
(* number of frames of unify and unify_var on the call stack.             *)

EmptyMap == [k \in {} |-> k]

Theta(k, m, vs) == [kind |-> k, map |-> m, vars |-> vs, depth |-> 0]

Raised == {"IndexError", "TypeError", "RecursionError"}

Raise(e, theta) == Theta(e, EmptyMap, theta.vars)

\* theta as the argument of a call made from the frame that holds caller
Call(theta, caller) == [theta EXCEPT !.depth = caller.depth + 1]

\* what a call returned, back in the frame that holds caller
Return(result, caller) == [result EXCEPT !.depth = caller.depth]

\* theta[k] = v
Bind(m, k, v) == [a \in (DOMAIN m) \cup {k} |-> IF a = k THEN v ELSE m[a]]

\* the while loop of unify_var: the first x[0] + str(i) not in VARIABLES
FreshName(x, vs) ==
    LET c == Head(x.Predicate)
        free(i) == \A n \in 1..Len(vs) : vs[n] # << c, Digits[i + 1] >>
        i == CHOOSE n \in 0..9 : free(n) /\ \A m \in 0..(n - 1) : ~free(m)
    IN  << c, Digits[i + 1] >>

RECURSIVE occur_check(_, _)
occur_check_shallow(var, x) ==
    IF x.tag = "str" THEN var = x
    ELSE IF x.tag = "Literal"
         THEN \/ x.Predicate = var.Predicate
              \/ \E i \in 1..Len(x.Arguments) : x.Arguments[i] = var
         ELSE /\ Len(x.Arguments) > 1
              /\ \E i \in 1..Len(x.Arguments) : x.Arguments[i] = var

occur_check(var, x) ==
    IF x.tag = "str" THEN var = x
    ELSE IF x.tag = "Literal"
         THEN \/ x.Predicate = var.Predicate
              \/ \E i \in 1..Len(x.Arguments) : occur_check(var, x.Arguments[i])
         ELSE /\ Len(x.Arguments) > 1
              /\ \E i \in 1..Len(x.Arguments) : occur_check(var, x.Arguments[i])

RECURSIVE unify(_, _, _), unify_var(_, _, _)

unify(x, y, theta) ==
    IF theta.kind \in Raised THEN theta    \* an exception passes through every caller
    ELSE IF theta.depth >= RecursionLimit THEN Raise("RecursionError", theta)
    ELSE IF theta.kind = "None" THEN theta
    ELSE IF x = y THEN theta
    ELSE IF InVARIABLES(x, theta.vars)
         THEN Return(unify_var(x, y, Call(theta, theta)), theta)
    ELSE IF InVARIABLES(y, theta.vars)
         THEN Return(unify_var(y, x, Call(theta, theta)), theta)
    ELSE IF x.tag = "Literal" /\ y.tag = "Literal"
         THEN LET new_theta == unify(Str(x.Predicate), Str(y.Predicate),
                                     Call(theta, theta))
              IN  Return(unify(List(x.Arguments), List(y.Arguments),
                               Call(new_theta, theta)), theta)
    ELSE IF x.tag = "list" /\ y.tag = "list"
         THEN IF x.Arguments = << >> \/ y.Arguments = << >>
              THEN Raise("IndexError", theta)     \* x[0] or y[0] of an empty list
              ELSE LET rest == unify(List(Tail(x.Arguments)), List(Tail(y.Arguments)),
                                     Call(theta, theta))
                   IN  Return(unify(x.Arguments[1], y.Arguments[1], Call(rest, theta)),
                              theta)
    ELSE Return(Theta("None", EmptyMap, theta.vars), theta)

unify_var(var, x, theta) ==
    IF theta.depth >= RecursionLimit THEN Raise("RecursionError", theta)
    ELSE IF theta.kind = "False" THEN Raise("TypeError", theta)   \* "var in theta" on a bool
    ELSE IF var \in DOMAIN theta.map
         THEN Return(unify(theta.map[var], x, Call(theta, theta)), theta)
    ELSE IF x.tag = "list" THEN Raise("TypeError", theta)    \* "x in theta": unhashable list
    ELSE IF x \in DOMAIN theta.map
         THEN Return(unify(var, theta.map[x], Call(theta, theta)), theta)
    ELSE IF occur_check(var, x) THEN Return(Theta("False", EmptyMap, theta.vars), theta)
    ELSE IF InVARIABLES(x, theta.vars) /\ x # var
         THEN LET fresh == FreshName(x, theta.vars)
              IN  Return(Theta("dict", Bind(Bind(theta.map, var, Str(fresh)), x, Str(fresh)),
                               Append(theta.vars, fresh)), theta)
         ELSE Return(Theta("dict", Bind(theta.map, var, x), theta.vars), theta)

\* Literal.substitute for a dict theta; substitute_args is its loop over
\* self.Arguments from position i on
RECURSIVE substitute(_, _), substitute_args(_, _, _)
substitute(self, theta) ==
    Literal(self.Predicate, substitute_args(self.Arguments, 1, theta))

substitute_args(args, i, theta) ==
    IF i > Len(args) THEN << >>
    ELSE LET arg == args[i]
             new_arg == IF arg \in DOMAIN theta.map THEN theta.map[arg]
                        ELSE IF arg.tag = "Literal" THEN substitute(arg, theta)
                        ELSE arg
         IN  << new_arg >> \o substitute_args(args, i + 1, theta)

\* Literal.substitute raises when theta is False and there is an argument
\* to look up ("arg in theta" on a bool)
substitute_raises(self, theta) == theta.kind = "False" /\ self.Arguments # << >>

----------------------------------------------------------------------------
(* Resolver *)

\* the complementary predicate name: strip or add the leading "!"
Compliment(pred) ==
    IF Head(pred) = "!" THEN Tail(pred) ELSE << "!" >> \o pred

make_clause_keep_two(literal, literal2, clause_1, clause_2) ==
    SelectSeq(clause_1, LAMBDA t : t # literal) \o clause_2

make_clause(literal, literal2, clause_1, clause_2) ==
    SelectSeq(clause_1, LAMBDA t : t # literal)
        \o SelectSeq(clause_2, LAMBDA t : t # literal2)

\* what PL_Resolve returns: the set of resolvents, or the exception raised
Resolved(k, r, vs) == [kind |-> k, resolvents |-> r, vars |-> vs]

\* the two nested loops of PL_Resolve from the k-th pair (literal, literal2)
\* on, in the order the loops visit them
RECURSIVE ResolveLoop(_, _, _, _)
ResolveLoop(clause_1, clause_2, k, acc) ==
    IF acc.kind # "ok" \/ k > Len(clause_1) * Len(clause_2) THEN acc
    ELSE
      LET literal == clause_1[((k - 1) \div Len(clause_2)) + 1]
          literal2 == clause_2[((k - 1) % Len(clause_2)) + 1]
          merged == make_clause(literal, literal2, clause_1, clause_2)
      IN
      IF Compliment(literal.Predicate) # literal2.Predicate
      THEN ResolveLoop(clause_1, clause_2, k + 1, acc)
      ELSE IF literal.Arguments # << >> /\ literal2.Arguments # << >>
      THEN \* F.O.L.
        LET theta == unify(List(literal.Arguments), List(literal2.Arguments),
                           Theta("dict", EmptyMap, acc.vars))
        IN
        IF theta.kind \in Raised
        THEN Resolved(theta.kind, acc.resolvents, theta.vars)
        ELSE IF theta.kind # "None"      \* "if theta is not None"
        THEN IF \E n \in 1..Len(merged) : substitute_raises(merged[n], theta)
             THEN Resolved("TypeError", acc.resolvents, theta.vars)
             ELSE LET copy == [n \in 1..Len(merged) |-> substitute(merged[n], theta)]
                  IN  ResolveLoop(clause_1, clause_2, k + 1,
                          Resolved("ok", acc.resolvents \cup {SubSeq(copy, 1, Len(copy))},
                                   theta.vars))
        ELSE ResolveLoop(clause_1, clause_2, k + 1,
                         Resolved("ok", acc.resolvents, theta.vars))
      ELSE \* Prop Logic
        ResolveLoop(clause_1, clause_2, k + 1,
                    Resolved("ok", acc.resolvents \cup {merged}, acc.vars))

PL_Resolve(clause_1, clause_2, vs) ==
    ResolveLoop(clause_1, clause_2, 1, Resolved("ok", {}, vs))

----------------------------------------------------------------------------
(* unify, Literal.substitute and PL_Resolve applied to one pair of        *)
(* argument lists, or to a variable and a term that contains it           *)

xVar == Str(<< "x" >>)
yVar == Str(<< "y" >>)
Fn(name, a) == Literal(<< name >>, a)

\* the header line "Variables: x y"
InitVariables == << << "x" >>, << "y" >> >>

\* arguments of a literal: variables, constants and function terms
ListElems ==
    { xVar, yVar, Str(<< "A" >>), Str(<< "B" >>),
      Fn("f", << xVar >>), Fn("f", << yVar >>), Fn("g", << yVar >>) }

RECURSIVE ArgLists(_)
ArgLists(n) ==
    IF n = 0 THEN { << >> }
    ELSE LET S == ArgLists(n - 1)
         IN  S \cup { << e >> \o l : e \in ListElems, l \in { m \in S : Len(m) = n - 1 } }

\* function terms that contain the variable v at nesting depth d
RECURSIVE Nest(_, _)
Nest(v, d) ==
    IF d = 0 THEN { v }
    ELSE UNION { { Fn("f", << t >>), Fn("g", << t >>), Fn("f", << Str(<< "A" >>), t >>) }
                 : t \in Nest(v, d - 1) }

\* the terms that contain v at some depth 1..MaxNest
Nested(v) == UNION { Nest(v, d) : d \in 1..MaxNest }

OccursPairs ==
    UNION { { << v, t >> : t \in Nested(v) } \cup { << t, v >> : t \in Nested(v) }
            : v \in { xVar, yVar } }

ListPairs == { << List(a), List(b) >> : a \in ArgLists(MaxArgs), b \in ArgLists(MaxArgs) }

\* the literals of the two clauses besides the complementary pair
Extras1 == { << >>, << Literal(<< "Q" >>, << xVar >>) >> }
Extras2 == { << >>, << Literal(<< "R" >>, << yVar >>) >> }

EngineIdle ==
    /\ KB = {} /\ processed = {} /\ pairs = {} /\ new = {}
    /\ pc = "idle" /\ verdict = "Running" /\ input = {} /\ collected = EmptyBag
    /\ runNo = 1 /\ first = "none"

InitFOL ==
    /\ EngineIdle
    /\ Variables = InitVariables
    /\ \E p \in ListPairs \cup OccursPairs : arg_x = p[1] /\ arg_y = p[2]
    /\ theta_out = Theta("pending", EmptyMap, InitVariables)
    /\ sub_x = << >> /\ sub_y = << >>
    /\ clause_one = << >> /\ clause_two = << >>
    /\ resolvents = Resolved("pending", {}, InitVariables)
    /\ fpc = "init"

\* theta = unify(x, y, {})
DoUnify ==
    /\ fpc = "init"
    /\ theta_out' = unify(arg_x, arg_y, Theta("dict", EmptyMap, Variables))
    /\ Variables' = theta_out'.vars
    /\ fpc' = "unified"
    /\ UNCHANGED << arg_x, arg_y, sub_x, sub_y, clause_one, clause_two, resolvents >>
    /\ UNCHANGED engineVars

\* a literal with the arguments x, and one with the arguments y, after
\* new_literal.substitute(theta)
DoSubstitute ==
    /\ fpc = "unified"
    /\ theta_out.kind = "dict"
    /\ arg_x.tag = "list"
    /\ sub_x' = substitute(Literal(<< "P" >>, arg_x.Arguments), theta_out).Arguments
    /\ sub_y' = substitute(Literal(<< "P" >>, arg_y.Arguments), theta_out).Arguments
    /\ fpc' = "substituted"
    /\ UNCHANGED << Variables, arg_x, arg_y, theta_out, clause_one, clause_two, resolvents >>
    /\ UNCHANGED engineVars

\* PL_Resolve of a clause with the literal P(x) and a clause with !P(y)
DoResolve ==
    /\ fpc = "init"
    /\ arg_x.tag = "list"
    /\ \E e1 \in Extras1, e2 \in Extras2 :
         /\ clause_one' = << Literal(<< "P" >>, arg_x.Arguments) >> \o e1
         /\ clause_two' = << Literal(<< "!", "P" >>, arg_y.Arguments) >> \o e2
    /\ resolvents' = PL_Resolve(clause_one', clause_two', Variables)
    /\ Variables' = resolvents'.vars
    /\ fpc' = "resolved"
    /\ UNCHANGED << arg_x, arg_y, theta_out, sub_x, sub_y >>
    /\ UNCHANGED engineVars

NextFOL == DoUnify \/ DoSubstitute \/ DoResolve

SpecFOL == InitFOL /\ [][NextFOL]_vars

----------------------------------------------------------------------------
(* Saturation engine: get_pairs and PL_Resolution *)

get_pairs(originalClause, compliment, KBs) ==
    { clause \in KBs :
        /\ clause # originalClause
        /\ \E i \in 1..Len(clause) : clause[i].Predicate = compliment }

\* "for literal in clause: ... matched = get_pairs(clause, compliment, KB)":
\* every literal overwrites matched
RECURSIVE ScanLiterals(_, _, _, _)
ScanLiterals(clause, i, matched, KBs) ==
    IF i > Len(clause) THEN matched
    ELSE ScanLiterals(clause, i + 1,
                      get_pairs(clause, Compliment(clause[i].Predicate), KBs), KBs)

\* a literal without "(" in the file: args = "".split(","), the list [""]
NoArguments == << Str(<< >>) >>

\* propositional literals: a predicate name and no arguments
Atom(name) == Literal(<< name >>, NoArguments)
Neg(name) == Literal(<< "!", name >>, NoArguments)

InputLiterals == { Atom("P"), Neg("P"), Atom("Q"), Neg("Q") }

NoRepeat(clause) ==
    \A i, j \in 1..Len(clause) : clause[i] = clause[j] => i = j

\* the clauses of the input: one or two different literals
InputClauses ==
    { << l >> : l \in InputLiterals }
      \cup { c \in { << l, m >> : l, m \in InputLiterals } : NoRepeat(c) }

RECURSIVE KBsUpTo(_)
KBsUpTo(n) ==
    IF n = 1 THEN { { c } : c \in InputClauses }
    ELSE LET S == KBsUpTo(n - 1)
         IN  S \cup { k \cup { c } : k \in S, c \in InputClauses }

InputKBs == KBsUpTo(MaxInputClauses)

FOLIdle ==
    /\ Variables = << >>
    /\ arg_x = List(<< >>) /\ arg_y = List(<< >>)
    /\ theta_out = Theta("pending", EmptyMap, << >>)
    /\ sub_x = << >> /\ sub_y = << >>
    /\ clause_one = << >> /\ clause_two = << >>
    /\ resolvents = Resolved("pending", {}, << >>)
    /\ fpc = "idle"

\* PL_Resolution(clauses): processed = set(), first round
Init ==
    /\ input \in InputKBs
    /\ KB = input
    /\ processed = {}
    /\ pairs = {}
    /\ new = {}
    /\ pc = "collect"
    /\ verdict = "Running"
    /\ collected = EmptyBag
    /\ runNo = 1
    /\ first = "none"
    /\ FOLIdle

\* matched, when the loop over the literals of clause is over
Matched(clause) == ScanLiterals(clause, 1, {}, KB)

\* clause finds match, whatever processed holds
Candidate_unrecorded(clause, match) == match \in Matched(clause)

\* clause finds match and the pair is in processed in neither order
Candidate(clause, match) ==
    /\ match \in Matched(clause)
    /\ << clause, match >> \notin processed
    /\ << match, clause >> \notin processed

\* no cycle among the edges between nodes: some order of the nodes agrees
\* with every edge
RECURSIVE Acyclic(_, _)
Acyclic(nodes, edges) ==
    IF nodes = {} THEN TRUE
    ELSE LET sources == { n \in nodes :
                            ~ \E e \in edges : e[2] = n /\ e[1] \in nodes }
         IN  sources # {} /\ Acyclic(nodes \ sources, edges)

\* The loop "for clause in KB" of one round.  The set KB is visited in some
\* order.  A pair of which only one clause finds the other is appended in
\* that orientation.  When each finds the other, the clause visited first
\* appends the pair and puts both orders in processed, so the second does
\* not: visited_first holds these pairs as (first, second), and is what a
\* visiting order of KB can produce exactly when it has no cycle.
CollectPairs ==
    /\ pc = "collect"
    /\ \E found \in { UNION { { << clause, match >> :
                                   match \in { m \in Matched(clause) : Candidate(clause, m) } }
                               : clause \in KB } } :
       \E one_way \in { { p \in found : << p[2], p[1] >> \notin found } } :
       \E unordered \in { { { p[1], p[2] } : p \in found \ one_way } } :
       \E lead_first \in SUBSET unordered :
         LET lead(u) == CHOOSE clause \in u : TRUE
             other(u) == CHOOSE clause \in u : clause # lead(u)
         IN  \E visited_first \in
                   { { << lead(u), other(u) >> : u \in lead_first }
                       \cup { << other(u), lead(u) >> : u \in unordered \ lead_first } } :
             \E appended \in { one_way \cup visited_first } :
                 /\ Acyclic(KB, visited_first)
                 /\ pairs' = appended
                 /\ processed' = processed \cup appended
                                   \cup { << p[2], p[1] >> : p \in appended }
                 /\ collected' = collected (+) SetToBag(appended)
    /\ pc' = "resolve"
    /\ UNCHANGED << KB, new, verdict, input, runNo, first, Variables >>
    /\ UNCHANGED folVars

\* The loop "for pair in pairs" and the end of the round.  On literals
\* without arguments unify returns at x == y, so VARIABLES stays as it is.
ResolvePairs ==
    /\ pc = "resolve"
    /\ \E result \in { [pair \in pairs |-> PL_Resolve(pair[1], pair[2], Variables)] } :
       \E all_new \in { UNION { result[pair].resolvents : pair \in pairs } } :
           IF \E pair \in pairs : result[pair].kind # "ok"
           THEN /\ verdict' = "Raised"
                /\ pc' = "done"
                /\ UNCHANGED << KB, new, pairs >>
           ELSE IF << >> \in all_new
           THEN \* if () in resolvents: return False
                /\ verdict' = "Unsatisfiable"
                /\ pc' = "done"
                /\ UNCHANGED << KB, new, pairs >>
           ELSE IF all_new \subseteq KB
           THEN \* if new.issubset(KB): return True
                /\ new' = all_new
                /\ verdict' = "Satisfiable"
                /\ pc' = "done"
                /\ UNCHANGED << KB, pairs >>
           ELSE \* KB = KB.union(new), next round
                /\ \A clause \in all_new : Len(clause) <= MaxClauseLen
                /\ Cardinality(KB \cup all_new) <= MaxKB
                /\ new' = all_new
                /\ KB' = KB \cup all_new
                /\ pairs' = {}
                /\ pc' = "collect"
                /\ UNCHANGED verdict
    /\ UNCHANGED << processed, collected, input, runNo, first, Variables >>
    /\ UNCHANGED folVars

Next == CollectPairs \/ ResolvePairs

Spec == Init /\ [][Next]_vars

----------------------------------------------------------------------------
(* Knowledge bases with a tautological clause of the shape (X, !A, A),    *)
(* and a second run of PL_Resolution on the same clauses                  *)

Not(l) == Literal(Compliment(l.Predicate), l.Arguments)

\* the clause (b, !a, a)
Taut(a, b) == << b, Not(a), a >>

\* a unit clause and a tautological clause
UnitAndTaut(a, b) == { << a >>, Taut(a, b) }

\* a binary clause and two tautological clauses
BinaryAndTauts(a, b) == { << a, b >>, << b, Not(b) >>, Taut(a, b) }

\* two literals over different predicate names
LiteralPairs ==
    { p \in InputLiterals \X InputLiterals : p[2] # p[1] /\ p[2] # Not(p[1]) }

TautKBs ==
    { UnitAndTaut(p[1], p[2]) : p \in LiteralPairs }
      \cup { BinaryAndTauts(p[1], p[2]) : p \in LiteralPairs }

InitTaut ==
    /\ input \in TautKBs
    /\ KB = input
    /\ processed = {}
    /\ pairs = {}
    /\ new = {}
    /\ pc = "collect"
    /\ verdict = "Running"
    /\ collected = EmptyBag
    /\ runNo = 1
    /\ first = "none"
    /\ FOLIdle

\* the caller runs PL_Resolution again on the clauses of the first run
Restart ==
    /\ pc = "done"
    /\ runNo = 1
    /\ first' = verdict
    /\ runNo' = 2
    /\ KB' = input
    /\ processed' = {}
    /\ pairs' = {}
    /\ new' = {}
    /\ pc' = "collect"
    /\ verdict' = "Running"
    /\ collected' = EmptyBag
    /\ UNCHANGED << input, Variables >>
    /\ UNCHANGED folVars

NextTwoRuns == CollectPairs \/ ResolvePairs \/ Restart

\* PL_Resolution is a loop without suspension points: a round that can be
\* taken is taken
FairSpec == InitTaut /\ [][Next]_vars /\ WF_vars(Next)

FairTwoRuns == InitTaut /\ [][NextTwoRuns]_vars /\ WF_vars(NextTwoRuns)

----------------------------------------------------------------------------
(* Properties *)

\* the literal is true when the atoms of true_atoms are the true ones
Holds(literal, true_atoms) ==
    IF Head(literal.Predicate) = "!"
    THEN Tail(literal.Predicate) \notin true_atoms
    ELSE literal.Predicate \in true_atoms

\* some truth assignment satisfies every clause
Satisfiable(clauses) ==
    \E true_atoms \in SUBSET { << "P" >>, << "Q" >> } :
        \A c \in clauses : \E i \in 1..Len(c) : Holds(c[i], true_atoms)

LiteralSet(clause) == { clause[i] : i \in 1..Len(clause) }

\* some literal of c has the complement of the predicate name of a literal of d
Complementary(c, d) ==
    \E i \in 1..Len(c), j \in 1..Len(d) : Compliment(c[i].Predicate) = d[j].Predicate

\* C1: when PL_Resolution returns, it returns False exactly when no truth
\* assignment satisfies every clause of the input, and True otherwise.
C1_Verdict ==
    pc = "done" =>
        /\ verdict \in { "Satisfiable", "Unsatisfiable" }
        /\ (verdict = "Unsatisfiable") <=> ~Satisfiable(input)

\* an unsatisfiable input of three clauses refuted after more than one round
C1_Witness ==
    /\ pc = "done"
    /\ verdict = "Unsatisfiable"
    /\ Cardinality(input) = 3
    /\ KB # input

C3_NoResolvent ==
    ( /\ fpc = "resolved"
      /\ arg_x.Arguments # << >>
      /\ arg_y.Arguments # << >>
      /\ unify(arg_x, arg_y, Theta("dict", EmptyMap, InitVariables)).kind
            \in { "None", "False" } )
    => (resolvents.kind = "ok" /\ resolvents.resolvents = {})

\* C4: when unify(x, y, {}) returns a substitution, substitute turns x and
\* y into equal argument lists.
C4_Sound == fpc = "substituted" => sub_x = sub_y

\* C5: unify returns a substitution or the failure value and raises
\* nothing; on argument lists of different lengths it returns the failure
\* value.
C5_Returns ==
    fpc = "unified" =>
        /\ theta_out.kind \notin Raised
        /\ Len(arg_x.Arguments) # Len(arg_y.Arguments)
              => theta_out.kind \in { "None", "False" }

\* C6: when no clause of the input repeats a literal (and no two clauses
\* of the input are the same set of literals), every clause of the KB holds
\* each literal once, and no two elements of the KB hold the same set of
\* literals.
C6_ClausesAreSets ==
    ( /\ \A clause \in input : NoRepeat(clause)
      /\ \A c, d \in input : LiteralSet(c) = LiteralSet(d) => c = d )
    => /\ \A clause \in KB : NoRepeat(clause)
       /\ \A c, d \in KB : LiteralSet(c) = LiteralSet(d) => c = d

\* C7: a pair of clauses is collected for PL_Resolve at most once, in one
\* orientation only, over all rounds; both orientations are in processed.
C7_OncePerPair ==
    \A p \in BagToSet(collected) :
        /\ CopiesIn(p, collected) = 1
        /\ p[1] # p[2]
        /\ CopiesIn(<< p[2], p[1] >>, collected) = 0
        /\ << p[1], p[2] >> \in processed
        /\ << p[2], p[1] >> \in processed

\* a pair of an earlier round whose clauses still match in a later round
\* and which the later round did not collect again
C7_Witness ==
    /\ pc = "resolve"
    /\ \E p \in BagToSet(collected) : p \notin pairs /\ p[2] \in Matched(p[1])

\* C8: unify of a variable with a function term that contains it, at any
\* depth and in either order of the arguments, returns a failure value.
C8_OccursFails ==
    (fpc = "unified" /\ << arg_x, arg_y >> \in OccursPairs)
        => theta_out.kind \in { "None", "False" }

\* x against f(g(x)): the variable is two levels down
C8_Witness ==
    /\ fpc = "unified"
    /\ arg_x = xVar
    /\ arg_y = Fn("f", << Fn("g", << xVar >>) >>)
    /\ theta_out.kind = "False"

\* C9: when the pairs of a round are collected, every two different
\* clauses of the KB with complementary literals, at any position, are in
\* the processed record.
C9_AllCollected ==
    pc = "resolve" =>
        \A c, d \in KB : (c # d /\ Complementary(c, d)) => << c, d >> \in processed

====
